---- MODULE Spec2Model ----
(***************************************************************************)
(* A model of the two SODAR commands of cubi-tk:                           *)
(*   ingest-fastq   (src/cubi_tk/sodar/ingest_fastq.py)                    *)
(*   pull-raw-data  (src/cubi_tk/sodar/pull_raw_data.py)                   *)
(* One behaviour is one invocation of one command: Init draws the command  *)
(* line and the environment (files on disk, sample sheet), the actions are *)
(* the steps of execute() and of the pool's worker threads.                *)
(***************************************************************************)
EXTENDS Integers, Sequences, FiniteSets, TLC

(***************************************************************************)
(* Bounds of the model.                                                    *)
(***************************************************************************)
\* longest list of positional `sources` given to ingest-fastq
MaxSources == 2
\* most lines the operator types into one invocation
MaxLines == 3

\* DEFAULT_NUM_TRANSFERS, the default of --num-parallel-transfers
DEFAULT_NUM_TRANSFERS == 8

(***************************************************************************)
(* Text.  A line of operator input is a sequence of one-character strings; *)
(* str.lower() and str.startswith() are computed on it.                    *)
(***************************************************************************)
LowerChar(c) ==
    CASE c = "Y" -> "y"
      [] c = "N" -> "n"
      [] c = "E" -> "e"
      [] c = "S" -> "s"
      [] c = "O" -> "o"
      [] OTHER -> c

Lower(s) == [i \in 1..Len(s) |-> LowerChar(s[i])]

StartsWith(s, p) == Len(s) >= Len(p) /\ SubSeq(s, 1, Len(p)) = p

\* the lines the operator may type at a prompt
Lines ==
    { <<"y">>, <<"Y">>, <<"y", "e", "s">>, <<"Y", "e", "s">>,
      <<"n">>, <<"N", "o">>, <<>>, <<"o", "k">> }

(***************************************************************************)
(* Paths.  A path is a sequence of tokens (directory parts end in "/").    *)
(* TokOrder lists the tokens in the order Python compares the strings.     *)
(***************************************************************************)
TokOrder ==
    << ".fastq.gz", ".md5", ".txt", "/", "/cwd/", "/irods/", "2024-01-01",
       "_L1", "a", "b", "davs://", "f1/", "f2/", "i:", "nodir/", "notes",
       "r1/", "r2/", "sub/", "temp/" >>

Rank(t) == CHOOSE i \in 1..Len(TokOrder) : TokOrder[i] = t

RECURSIVE PathLess(_, _)
PathLess(p, q) ==
    IF q = <<>> THEN FALSE
    ELSE IF p = <<>> THEN TRUE
    ELSE IF Head(p) = Head(q) THEN PathLess(Tail(p), Tail(q))
    ELSE Rank(Head(p)) < Rank(Head(q))

EndsWith(p, t) == Len(p) > 0 /\ p[Len(p)] = t

IsDirTok(t) == t \in {"/cwd/", "f1/", "f2/", "r1/", "r2/", "sub/", "nodir/", "temp/"}

\* Path(path).name: what follows the last directory part
RECURSIVE BaseName(_)
BaseName(p) ==
    IF \E i \in 1..Len(p) : IsDirTok(p[i]) THEN BaseName(Tail(p)) ELSE p

\* os.path.realpath of a relative path: the working directory is prepended
RealPath(p) == <<"/cwd/">> \o p

(***************************************************************************)
(* The command line of ingest-fastq (setup_argparse) that planning reads.  *)
(***************************************************************************)
\* DEFAULT_DEST_PATTERN "{sample}/{date}/{filename}": placeholders and text
DEFAULT_DEST_PATTERN ==
    << [ph |-> "sample"], [lit |-> "/"], [ph |-> "date"], [lit |-> "/"],
       [ph |-> "filename"] >>

\* a --remote-dir-pattern naming a field the matcher does not produce
UnknownFieldPattern ==
    << [ph |-> "sample"], [lit |-> "/"], [ph |-> "flowcell"], [lit |-> "/"],
       [ph |-> "filename"] >>

Patterns == {DEFAULT_DEST_PATTERN, UnknownFieldPattern}

IsPh(item) == "ph" \in DOMAIN item

\* __init__: re.findall(r"(?<={).+?(?=})", remote_dir_pattern) as a set
dest_pattern_fields(pattern) ==
    {pattern[i].ph : i \in {k \in 1..Len(pattern) : IsPh(pattern[k])}}

irods_dest == <<"/irods/">>
remote_dir_date == <<"2024-01-01">>
add_suffix == <<>>
args_tmp == <<"temp/">>

\* positional sources: two local folders, a folder that does not exist and
\* two WebDAV locators
LocalF1 == <<"f1/">>
LocalF2 == <<"f2/">>
NoFolder == <<"nodir/">>
RemoteR1 == <<"davs://", "r1/">>
RemoteR2 == <<"davs://", "r2/">>
SourceNames == {LocalF1, LocalF2, NoFolder, RemoteR1, RemoteR2}

\* re.match("davs://", src)
IsWebdav(src) == StartsWith(src, <<"davs://">>)

(***************************************************************************)
(* The file system.  An entry is a path below the working directory, with  *)
(* its kind and size; `disk` (a variable) is the set of entries present.   *)
(***************************************************************************)
FileA    == [path |-> <<"f1/", "a", "_L1", ".fastq.gz">>, isfile |-> TRUE, size |-> 10]
FileAMd5 == [path |-> <<"f1/", "a", "_L1", ".fastq.gz", ".md5">>, isfile |-> TRUE, size |-> 5]
FileTxt  == [path |-> <<"f1/", "notes", ".txt">>, isfile |-> TRUE, size |-> 3]
DirSub   == [path |-> <<"f1/", "sub/">>, isfile |-> FALSE, size |-> 0]
FileB    == [path |-> <<"f2/", "b", ".fastq.gz">>, isfile |-> TRUE, size |-> 7]
Entries  == {FileA, FileAMd5, FileTxt, DirSub, FileB}

\* the directories that exist (Path(folder).is_dir())
IsDir(folder) == folder \in {LocalF1, LocalF2}

\* iglob(f"{folder}/**/*", recursive=True): the entries below folder
Glob(d, folder) == {e \in d : StartsWith(e.path, folder) /\ Len(e.path) > Len(folder)}

\* the orders in which the enumeration may yield a set of entries
GlobOrders(S) ==
    {s \in [1..Cardinality(S) -> S] : \A i, j \in 1..Cardinality(S) : s[i] = s[j] => i = j}

\* os.path.isfile / os.path.getsize of an absolute path
OnDisk(d, real) == {e \in d : RealPath(e.path) = real}
IsFile(d, real) == \E e \in OnDisk(d, real) : e.isfile
GetSize(d, real) ==
    IF OnDisk(d, real) = {} THEN 0 ELSE (CHOOSE e \in OnDisk(d, real) : TRUE).size

(***************************************************************************)
(* Pattern matcher: DEFAULT_SRC_REGEX applied with re.match (anchored at   *)
(* the start only) to the tokens of a path.                                *)
(***************************************************************************)
NoMatch == [matched |-> FALSE]

FirstExt(name) ==
    IF \E i \in 1..Len(name) : name[i] = ".fastq.gz"
    THEN CHOOSE i \in 1..Len(name) :
            name[i] = ".fastq.gz" /\ \A k \in 1..(i - 1) : name[k] # ".fastq.gz"
    ELSE 0

Match(path) ==
    LET name == BaseName(path)
        i    == FirstExt(name)
        pre  == SubSeq(name, 1, i - 1)
        lane == Len(pre) >= 2 /\ pre[Len(pre)] = "_L1"
    IN  IF i < 2 THEN NoMatch
        ELSE [matched |-> TRUE,
              groupdict |->
                [sample |-> IF lane THEN SubSeq(pre, 1, Len(pre) - 1) ELSE pre,
                 lane   |-> IF lane THEN <<"L1">> ELSE <<>>,
                 mate   |-> <<>>,
                 batch  |-> <<>>]]

\* the names of the groups of DEFAULT_SRC_REGEX (m.groupdict())
MatcherFields == {"sample", "lane", "mate", "batch"}

\* keyword arguments that give every placeholder of the pattern a value,
\* the empty text when the matcher has none
FormatArgsLenient(pattern, path, groupdict) ==
    [k \in dest_pattern_fields(pattern) \cup {"filename", "date"} |->
        IF k = "filename" THEN BaseName(path) \o add_suffix
        ELSE IF k = "date" THEN remote_dir_date
        ELSE IF k \in DOMAIN groupdict THEN groupdict[k]
        ELSE <<>>]

\* the keyword arguments of str.format: filename, date and the wildcards
\* kept because the pattern names them
FormatArgs(pattern, path, groupdict) ==
    LET kept == DOMAIN groupdict \cap dest_pattern_fields(pattern)
    IN  [k \in kept \cup {"filename", "date"} |->
            IF k = "filename" THEN BaseName(path) \o add_suffix
            ELSE IF k = "date" THEN remote_dir_date
            ELSE groupdict[k]]

\* str.format raises KeyError for a placeholder without keyword argument
FormatFails(pattern, kwargs) ==
    \E i \in 1..Len(pattern) : IsPh(pattern[i]) /\ pattern[i].ph \notin DOMAIN kwargs

RECURSIVE Format(_, _)
Format(pattern, kwargs) ==
    IF pattern = <<>> THEN <<>>
    ELSE (IF IsPh(Head(pattern)) THEN kwargs[Head(pattern).ph] ELSE <<Head(pattern).lit>>)
         \o Format(Tail(pattern), kwargs)

(***************************************************************************)
(* TransferJob and its total order.                                        *)
(***************************************************************************)
TransferJob(src, dest, bytes) == [path_src |-> src, path_dest |-> dest, bytes |-> bytes]

JobLess(a, b) ==
    \/ PathLess(a.path_src, b.path_src)
    \/ a.path_src = b.path_src /\ PathLess(a.path_dest, b.path_dest)

\* sorted(): stable insertion of each element into the sorted prefix
RECURSIVE Insert(_, _)
Insert(j, s) ==
    IF s = <<>> THEN <<j>>
    ELSE IF JobLess(j, Head(s)) THEN <<j>> \o s
    ELSE <<Head(s)>> \o Insert(j, Tail(s))

RECURSIVE Sorted(_)
Sorted(s) == IF s = <<>> THEN <<>> ELSE Insert(s[Len(s)], Sorted(SubSeq(s, 1, Len(s) - 1)))

(***************************************************************************)
(* build_jobs, lines 153-204: the loop over the folders and their files.   *)
(* The result is [err, jobs]: err names the exception that ended planning. *)
(***************************************************************************)
\* a planner that takes a file the regex rejects for an error
OnNoMatchRaises == [err |-> "NoMatchError", jobs |-> <<>>]

\* lines 176-177: `if m:` has no else branch, the path contributes nothing
OnNoMatch == [err |-> "", jobs |-> <<>>]

\* an enumeration that takes checksum files for data files
IsSidecarNever(real_path) == FALSE

\* line 166: real_path.endswith(".md5"), "skip, will be added automatically"
IsSidecar(real_path) == EndsWith(real_path, ".md5")

\* line 42: the class attribute of SodarIngestFastq
fix_md5_files == TRUE

\* lines 162-203 for one enumerated path
JobsOfPath(d, pattern, path) ==
    LET real_path == RealPath(path)
        m         == Match(path)
    IN  IF ~IsFile(d, real_path) THEN [err |-> "", jobs |-> <<>>]
        ELSE IF IsSidecar(real_path) THEN [err |-> "", jobs |-> <<>>]
        ELSE IF OnDisk(d, real_path \o <<".md5">>) = {} /\ ~fix_md5_files
             THEN [err |-> "MissingFileException", jobs |-> <<>>]
        ELSE IF ~m.matched THEN OnNoMatch
        ELSE LET kwargs == FormatArgs(pattern, path, m.groupdict)
             IN  IF FormatFails(pattern, kwargs) THEN [err |-> "KeyError", jobs |-> <<>>]
                 ELSE LET remote_file == irods_dest \o Format(pattern, kwargs)
                      IN  [err |-> "",
                           jobs |->
                             << TransferJob(real_path, remote_file, GetSize(d, real_path)),
                                TransferJob(real_path \o <<".md5">>, remote_file \o <<".md5">>,
                                            GetSize(d, real_path \o <<".md5">>)) >>]

\* the inner loop over the entries of one folder, in the order `order`
RECURSIVE JobsOfFolder(_, _, _)
JobsOfFolder(d, pattern, order) ==
    IF order = <<>> THEN [err |-> "", jobs |-> <<>>]
    ELSE LET first == JobsOfPath(d, pattern, Head(order).path)
         IN  IF first.err # "" THEN first
             ELSE LET rest == JobsOfFolder(d, pattern, Tail(order))
                  IN  [err |-> rest.err, jobs |-> first.jobs \o rest.jobs]

\* the outer loop; orders[i] is the enumeration order of folders[i]
RECURSIVE JobsOfFolders(_, _, _, _)
JobsOfFolders(d, pattern, folders, orders) ==
    IF folders = <<>> THEN [err |-> "", jobs |-> <<>>]
    ELSE IF ~IsDir(Head(folders)) THEN [err |-> "MissingFileException", jobs |-> <<>>]
    ELSE LET first == JobsOfFolder(d, pattern, Head(orders))
         IN  IF first.err # "" THEN first
             ELSE LET rest == JobsOfFolders(d, pattern, Tail(folders), Tail(orders))
                  IN  [err |-> rest.err, jobs |-> first.jobs \o rest.jobs]

\* the jobs returned in the order they were found
SortJobsMissing(s) == s

\* line 204
SortJobs(s) == Sorted(s)

(***************************************************************************)
(* State.                                                                  *)
(***************************************************************************)
VARIABLES
    cmd,            \* "ingest" or "pull": the command invoked
    pc,             \* position of the main thread in execute()
    ret,            \* "running", or how execute() ended: "None", "0", "1", "raise"
    yes,            \* args.yes / config.yes
    line,           \* the line input() returned to the gate being decided
    lines_read,     \* number of input() calls so far
    onlyN,          \* every line read so far was "n"
    declined,       \* the gates that were declined: "staging", "transfer", "pull"
    \* ingest-fastq
    num_parallel_transfers,
    sources,        \* args.sources
    pattern,        \* args.remote_dir_pattern
    disk,           \* the file system as build_jobs found it, and what was
                    \* written since; empty before
    mkdirs,         \* tmp_folder_<n> directories created by download_webdav
    download_jobs,  \* download_webdav's job list
    folders,        \* what download_webdav returned to build_jobs
    jobs,           \* execute's job tuple
    phase,          \* "none", "staging" (download_webdav) or "transfer" (execute)
    submitted,      \* jobs of the phase dispatched so far
    queue,          \* the pool's task queue: indices of dispatched, waiting jobs
    thr,            \* per thread: [pc, job, tmp]
    lock,           \* holder of counter.get_lock(), -1 when free
    counter,        \* Value(c_ulonglong)
    total_bytes,    \* tqdm's total
    tpos,           \* tqdm's position n
    ncalls,         \* calls of the external transfer executor so far
    failedIn,       \* the phases in which an executor call failed
    late,           \* jobs of the phase started after a failure in it
    handed,         \* per job of the phase: times it was handed to the executor
    completed,      \* jobs of the phase whose worker call has returned
    \* pull-raw-data
    min_batch,      \* config.min_batch
    dry_run,        \* config.dry_run
    has_assay,      \* the investigation holds an assay
    sheet,          \* collector.samples after the traversal, in its order
    out_exists,     \* config.output_dir exists when the command starts
    out_made,       \* out_path.mkdir(parents=True) was called
    library_to_folder,  \* what _get_library_to_folder returned
    commands,       \* the irsync command lines
    done_cmds       \* commands that check_call has completed

ingestVars ==
    << num_parallel_transfers, sources, pattern, disk, mkdirs, download_jobs,
       folders, jobs >>
poolVars ==
    << phase, submitted, queue, thr, lock, counter, total_bytes, tpos, failedIn, late,
       handed, completed >>
gateVars == << line, lines_read, onlyN, declined >>
pullVars ==
    << min_batch, dry_run, has_assay, sheet, out_exists, out_made, library_to_folder,
       commands, done_cmds >>
vars == << cmd, pc, ret, yes, gateVars, ingestVars, poolVars, ncalls, pullVars >>

\* --num-parallel-transfers: sequential, one worker, the default
PoolSizes == {0, 1, DEFAULT_NUM_TRANSFERS}

\* thread 0 is the main thread (it runs the jobs itself when the pool size
\* is 0), threads 1..K are ThreadPool's workers
Threads == 0..DEFAULT_NUM_TRANSFERS
Workers == 1..num_parallel_transfers
Idle == [pc |-> "idle", job |-> 0, tmp |-> 0]

RECURSIVE SumBytes(_)
SumBytes(js) == IF js = <<>> THEN 0 ELSE Head(js).bytes + SumBytes(Tail(js))

\* the lists of up to n different elements of S
SeqsUpTo(S, n) ==
    {s \in UNION {[1..k -> S] : k \in 1..n} :
        \A i, j \in 1..Len(s) : s[i] = s[j] => i = j}

Disks == {{FileTxt, DirSub} \cup d : d \in SUBSET {FileA, FileAMd5, FileB}}

InitIngest ==
    /\ cmd = "ingest"
    /\ num_parallel_transfers \in PoolSizes
    /\ sources \in SeqsUpTo(SourceNames, MaxSources)
    /\ pattern \in Patterns
    /\ disk = {}
    /\ min_batch = 0
    /\ dry_run = FALSE
    /\ has_assay = FALSE
    /\ sheet = <<>>
    /\ out_exists = FALSE

InitCommon ==
    /\ pc = "start"
    /\ ret = "running"
    /\ yes \in BOOLEAN
    /\ line = <<>>
    /\ lines_read = 0
    /\ onlyN = TRUE
    /\ declined = {}
    /\ mkdirs = {}
    /\ download_jobs = <<>>
    /\ folders = <<>>
    /\ jobs = <<>>
    /\ phase = "none"
    /\ submitted = 0
    /\ queue = <<>>
    /\ thr = [t \in Threads |-> Idle]
    /\ lock = -1
    /\ counter = 0
    /\ total_bytes = 0
    /\ tpos = 0
    /\ ncalls = 0
    /\ failedIn = {}
    /\ late = 0
    /\ handed = <<>>
    /\ completed = {}
    /\ out_made = FALSE
    /\ library_to_folder = <<>>
    /\ commands = <<>>
    /\ done_cmds = 0

(***************************************************************************)
(* Confirmation gates of ingest-fastq (lines 123-125 and 224-226).         *)
(***************************************************************************)
\* a gate that takes "n" for its approval
AffirmativeInverted(l) == StartsWith(Lower(l), <<"n">>)

\* input("Is this OK? [yN] ").lower().startswith("y")
Affirmative(l) == StartsWith(Lower(l), <<"y">>)

\* args.yes: `not self.args.yes and ...` short-circuits, nothing is read
GateSkip(at, go) ==
    /\ cmd = "ingest" /\ pc = at /\ yes
    /\ pc' = go
    /\ UNCHANGED << cmd, ret, yes, gateVars, ingestVars, poolVars, ncalls, pullVars >>

\* `not input("Is this OK? [yN] ").lower().startswith("y")`: one line is
\* read and decides
GatePrompt(gate, at, go, stop) ==
    /\ cmd = "ingest" /\ pc = at /\ ~yes
    /\ lines_read < MaxLines
    /\ \E l \in Lines :
        /\ line' = l
        /\ onlyN' = (onlyN /\ l = <<"n">>)
        /\ IF Affirmative(l)
           THEN pc' = go /\ declined' = declined
           ELSE pc' = stop /\ declined' = declined \cup {gate}
    /\ lines_read' = lines_read + 1
    /\ UNCHANGED << cmd, ret, yes, ingestVars, poolVars, ncalls, pullVars >>

(***************************************************************************)
(* download_webdav (lines 107-140).                                        *)
(***************************************************************************)
RECURSIVE DownloadJobs(_)
DownloadJobs(srcs) ==
    IF srcs = <<>> THEN <<>>
    ELSE (IF IsWebdav(Head(srcs))
          THEN << TransferJob(<<"i:">> \o Head(srcs), args_tmp, 1) >>
          ELSE <<>>) \o DownloadJobs(Tail(srcs))

\* the `folders` list of lines 109-118
RECURSIVE LocalFolders(_)
LocalFolders(srcs) ==
    IF srcs = <<>> THEN <<>>
    ELSE (IF IsWebdav(Head(srcs)) THEN <<>> ELSE << Head(srcs) >>)
         \o LocalFolders(Tail(srcs))

\* lines 108-122: the jobs, the tmp_folder_<n> directories, the listing
StagePlan ==
    /\ cmd = "ingest" /\ pc = "start"
    /\ download_jobs' = DownloadJobs(sources)
    /\ mkdirs' = 1..Len(DownloadJobs(sources))
    /\ pc' = "gate1"
    /\ UNCHANGED << cmd, ret, yes, gateVars, num_parallel_transfers, sources, pattern,
                    disk, folders, jobs, poolVars, ncalls, pullVars >>

\* lines 124-125: "OK, breaking at your request", return []
StageDeclined ==
    /\ cmd = "ingest" /\ pc = "stage_declined"
    /\ folders' = <<>>
    /\ line' = <<>>
    /\ pc' = "enumerate"
    /\ UNCHANGED << cmd, ret, yes, lines_read, onlyN, declined, num_parallel_transfers,
                    sources, pattern, disk, mkdirs, download_jobs, jobs, poolVars, ncalls,
                    pullVars >>

\* lines 127-130 and 233-235: a fresh counter, the progress bar, the pool
StartPhase(at, ph, js) ==
    /\ cmd = "ingest" /\ pc = at
    /\ phase' = ph
    /\ counter' = 0
    /\ total_bytes' = SumBytes(js)
    /\ tpos' = 0
    /\ submitted' = 0
    /\ queue' = <<>>
    /\ late' = 0
    /\ handed' = [i \in 1..Len(js) |-> 0]
    /\ completed' = {}
    /\ line' = <<>>
    /\ pc' = IF num_parallel_transfers = 0 THEN "loop" ELSE "submit"
    /\ UNCHANGED << cmd, ret, yes, lines_read, onlyN, declined, ingestVars, thr, lock,
                    failedIn, ncalls, pullVars >>

StartStaging == StartPhase("stage_go", "staging", download_jobs)
StartTransfer == StartPhase("xfer_go", "transfer", jobs)

(***************************************************************************)
(* The pool and its jobs (download_folder, lines 249-262; irsync_transfer  *)
(* of snappy.itransfer_common for the final transfer).                     *)
(***************************************************************************)
ActiveJobs == IF phase = "staging" THEN download_jobs ELSE jobs

\* counter.value += job.bytes
download_folder_add(c, job) == c + job.bytes
\* t.update(counter.value): tqdm advances its position by the argument
download_folder_update(pos, c) == pos + c

\* irsync_transfer: adds job.byte_size to the shared counter, then shows the
\* new cumulative total
irsync_transfer_add(c, job) == c + job.bytes
irsync_transfer_update(pos, c) == c

AddBytes(ph, c, job) ==
    IF ph = "staging" THEN download_folder_add(c, job) ELSE irsync_transfer_add(c, job)
UpdateBar(ph, pos, c) ==
    IF ph = "staging" THEN download_folder_update(pos, c) ELSE irsync_transfer_update(pos, c)

\* a counter updated without taking its lock
LockIgnored == TRUE

\* with counter.get_lock(): the lock is taken only when free
LockFree == lock = -1

\* the workers are interchangeable: the idle worker of least index takes
\* the next task
NextIdleWorker(w) ==
    /\ w \in Workers
    /\ thr[w].pc = "idle"
    /\ \A v \in Workers : v < w => thr[v].pc # "idle"

\* pool.apply_async(f, args=(job, counter, t)): the AsyncResult is dropped
Submit ==
    /\ cmd = "ingest" /\ pc = "submit"
    /\ submitted < Len(ActiveJobs)
    /\ submitted' = submitted + 1
    /\ queue' = Append(queue, submitted + 1)
    /\ UNCHANGED << cmd, pc, ret, yes, gateVars, ingestVars, phase, thr, lock, counter,
                    total_bytes, tpos, failedIn, late, handed, completed,
                    ncalls,
                    pullVars >>

\* a worker takes the next task and enters check_output(irsync ...)
Take(w) ==
    /\ cmd = "ingest" /\ pc = "submit"
    /\ NextIdleWorker(w)
    /\ queue # <<>>
    /\ thr' = [thr EXCEPT ![w] = [pc |-> "call", job |-> Head(queue), tmp |-> 0]]
    /\ handed' = [handed EXCEPT ![Head(queue)] = @ + 1]
    /\ queue' = Tail(queue)
    /\ ncalls' = ncalls + 1
    /\ late' = IF phase \in failedIn THEN late + 1 ELSE late
    /\ UNCHANGED << cmd, pc, ret, yes, gateVars, ingestVars, phase, submitted, lock,
                    counter, total_bytes, tpos, failedIn, completed, pullVars >>

\* pool size 0: `for job in jobs: f(job, counter, t)` on the main thread
SeqTake ==
    /\ cmd = "ingest" /\ pc = "loop"
    /\ thr[0].pc = "idle"
    /\ submitted < Len(ActiveJobs)
    /\ submitted' = submitted + 1
    /\ thr' = [thr EXCEPT ![0] = [pc |-> "call", job |-> submitted + 1, tmp |-> 0]]
    /\ handed' = [handed EXCEPT ![submitted + 1] = @ + 1]
    /\ ncalls' = ncalls + 1
    /\ late' = IF phase \in failedIn THEN late + 1 ELSE late
    /\ UNCHANGED << cmd, pc, ret, yes, gateVars, ingestVars, phase, queue, lock,
                    counter, total_bytes, tpos, failedIn, completed, pullVars >>

\* check_output has returned; with counter.get_lock(): ... the lock is
\* taken and counter.value is read
CallOk(t) ==
    /\ cmd = "ingest" /\ thr[t].pc = "call"
    /\ LockFree
    /\ lock' = t
    /\ thr' = [thr EXCEPT ![t].pc = "locked", ![t].tmp = counter]
    /\ UNCHANGED << cmd, pc, ret, yes, gateVars, ingestVars, phase, submitted, queue,
                    counter, total_bytes, tpos, failedIn, late, handed, completed,
                    ncalls,
                    pullVars >>

\* where the exception raised by a job goes: out of execute() when the main
\* thread ran the job, into the dropped AsyncResult when a worker did
Propagates(t) == t = 0

\* a handler that puts the failed job back into the pool's queue
RetryJob(q, j) == Append(q, j)

\* lines 256-258: the handler logs and re-raises, the job is not run again
AfterFailure(q, j) == q

\* a counter update that also runs when the call has failed
FailedBytesCounted(job) == job.bytes

\* lines 254-261: the handler re-raises before `counter.value += job.bytes`
\* is reached, a failed job adds nothing
FailedBytes(job) == 0

\* check_output raises SubprocessError: logged, re-raised
CallFail(t) ==
    /\ cmd = "ingest" /\ thr[t].pc = "call"
    /\ failedIn' = failedIn \cup {phase}
    /\ thr' = [thr EXCEPT ![t] = Idle]
    /\ IF Propagates(t)
       THEN pc' = "done" /\ ret' = "raise"
       ELSE UNCHANGED << pc, ret >>
    /\ queue' = AfterFailure(queue, thr[t].job)
    /\ counter' = counter + FailedBytes(ActiveJobs[thr[t].job])
    /\ UNCHANGED << cmd, yes, gateVars, ingestVars, phase, submitted, lock,
                    total_bytes, tpos, late, handed, completed, ncalls, pullVars >>

\* ... the write of counter.value, t.update(counter.value), the release
Release(t) ==
    /\ cmd = "ingest" /\ thr[t].pc = "locked"
    /\ counter' = AddBytes(phase, thr[t].tmp, ActiveJobs[thr[t].job])
    /\ tpos' = UpdateBar(phase, tpos, counter')
    /\ lock' = -1
    /\ completed' = completed \cup {thr[t].job}
    /\ thr' = [thr EXCEPT ![t] = Idle]
    /\ UNCHANGED << cmd, pc, ret, yes, gateVars, ingestVars, phase, submitted, queue,
                    total_bytes, failedIn, late, handed, ncalls,
                    pullVars >>

\* a pool that is left without waiting for its workers
JoinSkipped == TRUE

\* lines 242-243: pool.close(); pool.join() returns when the workers have
\* taken every queued task and ended
Joined == queue = <<>> /\ \A w \in Workers : thr[w].pc = "idle"

\* pool.close(); pool.join() has returned, or the sequential loop is over
PhaseOver ==
    /\ submitted = Len(ActiveJobs)
    /\ \/ pc = "submit" /\ Joined
       \/ pc = "loop" /\ thr[0].pc = "idle"

\* line 140: return folders
StagingDone ==
    /\ cmd = "ingest" /\ phase = "staging" /\ PhaseOver
    /\ folders' = LocalFolders(sources)
    /\ pc' = "enumerate"
    /\ UNCHANGED << cmd, ret, yes, gateVars, num_parallel_transfers, sources, pattern,
                    disk, mkdirs, download_jobs, jobs, poolVars, ncalls, pullVars >>

\* lines 245-246: "All done", return None
TransferDone ==
    /\ cmd = "ingest" /\ phase = "transfer" /\ PhaseOver
    /\ ret' = "None"
    /\ pc' = "done"
    /\ UNCHANGED << cmd, yes, gateVars, ingestVars, poolVars, ncalls, pullVars >>

(***************************************************************************)
(* build_jobs after download_webdav, and execute up to the final gate.     *)
(***************************************************************************)
Range(s) == {s[i] : i \in 1..Len(s)}

\* one enumeration order for each folder
RECURSIVE OrdersFor(_, _)
OrdersFor(d, fs) ==
    IF fs = <<>> THEN {<<>>}
    ELSE {<<o>> \o rest : o \in GlobOrders(Glob(d, Head(fs))), rest \in OrdersFor(d, Tail(fs))}

\* lines 153-204, on the file system d that the enumeration finds
Enumerate ==
    /\ cmd = "ingest" /\ pc = "enumerate"
    /\ \E d \in Disks : \E orders \in OrdersFor(d, folders) :
        LET r == JobsOfFolders(d, pattern, folders, orders)
        IN  /\ disk' = d
            /\ IF r.err # ""
               THEN pc' = "done" /\ ret' = "raise" /\ jobs' = jobs
               ELSE pc' = "md5fix" /\ ret' = ret /\ jobs' = SortJobs(r.jobs)
    /\ UNCHANGED << cmd, yes, gateVars, num_parallel_transfers, sources, pattern,
                    mkdirs, download_jobs, folders, poolVars, ncalls, pullVars >>

\* the sidecar written for a data file that has none
Md5Entry(real) == [path |-> Tail(real) \o <<".md5">>, isfile |-> TRUE, size |-> 5]

\* _execute_md5_files_fix: every planned data file without a sidecar on disk
\* gets one written
Md5Written(d, js) ==
    {Md5Entry(js[i].path_src) :
        i \in {k \in 1..Len(js) : /\ ~EndsWith(js[k].path_src, ".md5")
                                  /\ OnDisk(d, js[k].path_src \o <<".md5">>) = {}}}

\* lines 216-223
Md5Fix ==
    /\ cmd = "ingest" /\ pc = "md5fix"
    /\ disk' = IF fix_md5_files THEN disk \cup Md5Written(disk, jobs) ELSE disk
    /\ pc' = "gate2"
    /\ UNCHANGED << cmd, ret, yes, gateVars, num_parallel_transfers, sources, pattern,
                    mkdirs, download_jobs, folders, jobs, poolVars, ncalls, pullVars >>

\* lines 225-226: "OK, breaking at your request", return 1
XferDeclined ==
    /\ cmd = "ingest" /\ pc = "xfer_declined"
    /\ ret' = "1"
    /\ pc' = "done"
    /\ UNCHANGED << cmd, yes, gateVars, ingestVars, poolVars, ncalls, pullVars >>

IngestNext ==
    \/ StagePlan
    \/ GateSkip("gate1", "stage_go")
    \/ GatePrompt("staging", "gate1", "stage_go", "stage_declined")
    \/ StageDeclined
    \/ StartStaging
    \/ Submit
    \/ \E w \in Workers : Take(w)
    \/ SeqTake
    \/ \E t \in Threads : CallOk(t)
    \/ \E t \in Threads : CallFail(t)
    \/ \E t \in Threads : Release(t)
    \/ StagingDone
    \/ Enumerate
    \/ Md5Fix
    \/ GateSkip("gate2", "xfer_go")
    \/ GatePrompt("transfer", "gate2", "xfer_go", "xfer_declined")
    \/ XferDeclined
    \/ StartTransfer
    \/ TransferDone

(***************************************************************************)
(* pull-raw-data (src/cubi_tk/sodar/pull_raw_data.py).                     *)
(***************************************************************************)
\* the "Batch" values of the sample sheet: text, empty when not given
BatchValues == {<<>>, <<"0">>, <<"1">>}
MinBatches == {0, 1}

LibA  == [library_name |-> <<"LibA">>, folder_name |-> <<"fa">>]
LibB  == [library_name |-> <<"LibB">>, folder_name |-> <<"fb">>]
LibT  == [library_name |-> <<"12_3456", "-N1">>, folder_name |-> <<"ft">>]

\* what characteristics.get("Batch", comments.get("Batch")) finds on a source:
\* None when it carries neither, else the annotation with its value list
NoBatch == [none |-> TRUE]
BatchOf(b) == [value |-> <<b>>]
Annotations == {NoBatch} \cup {BatchOf(b) : b \in BatchValues}

\* one library of the sheet with the Batch annotation of its source
Sample(lib, a) ==
    [library_name |-> lib.library_name, folder_name |-> lib.folder_name, batch |-> a]

Sheets ==
    {<<Sample(LibA, a), Sample(LibB, b)>> \o t :
        a \in Annotations, b \in Annotations,
        t \in {<<>>, <<Sample(LibT, BatchOf(<<"1">>))>>}}

\* on_visit_material, line 61: `.value[0]` of the annotation; None has no
\* attribute `value`
VisitFails(sample) == "value" \notin DOMAIN sample.batch
batch_no(sample) == sample.batch.value[1]

\* iwalker.run(collector): the traversal ends at the first visit that raises
CollectFails(sh) == \E i \in 1..Len(sh) : VisitFails(sh[i])

DigitVal(c) == CASE c = "0" -> 0 [] c = "1" -> 1 [] c = "2" -> 2 [] OTHER -> 0

\* int(text)
RECURSIVE ToInt(_)
ToInt(b) == IF b = <<>> THEN 0 ELSE 10 * ToInt(SubSeq(b, 1, Len(b) - 1)) + DigitVal(b[Len(b)])

\* the condition of the comprehension, lines 221-222
BatchPasses(b, mb) == b # <<>> /\ ToInt(b) >= mb

\* _get_library_to_folder: library_name -> folder_name, in the sheet's order
RECURSIVE LibraryToFolder(_, _)
LibraryToFolder(sh, mb) ==
    IF sh = <<>> THEN <<>>
    ELSE (IF BatchPasses(batch_no(Head(sh)), mb)
          THEN << [k |-> Head(sh).library_name, v |-> Head(sh).folder_name] >>
          ELSE <<>>) \o LibraryToFolder(Tail(sh), mb)

\* "12_3456" in k
IsSkippedName(k) == \E i \in 1..Len(k) : k[i] = "12_3456"

\* lines 167-177: one irsync command per entry
RECURSIVE Commands(_)
Commands(l2f) ==
    IF l2f = <<>> THEN <<>>
    ELSE (IF IsSkippedName(Head(l2f).k) THEN <<>>
          ELSE << [src |-> <<"i:", "assay/">> \o Head(l2f).k,
                   dest |-> <<"out/">> \o Head(l2f).v] >>)
         \o Commands(Tail(l2f))

InitPull ==
    /\ cmd = "pull"
    /\ min_batch \in MinBatches
    /\ dry_run \in BOOLEAN
    /\ has_assay \in BOOLEAN
    /\ sheet \in Sheets
    /\ out_exists \in BOOLEAN
    /\ num_parallel_transfers = 0
    /\ sources = <<>>
    /\ pattern = DEFAULT_DEST_PATTERN
    /\ disk = {}

\* lines 133-183: the output directory, the assay, the commands, their listing
PullPlan ==
    /\ cmd = "pull" /\ pc = "start"
    /\ out_made' = ~out_exists
    /\ IF ~has_assay
       THEN /\ pc' = "done" /\ ret' = "1"
            /\ UNCHANGED << library_to_folder, commands >>
       ELSE IF CollectFails(sheet)
       THEN /\ pc' = "done" /\ ret' = "raise"
            /\ UNCHANGED << library_to_folder, commands >>
       ELSE LET l2f == LibraryToFolder(sheet, min_batch)
                cs  == Commands(l2f)
            IN  /\ library_to_folder' = l2f
                /\ commands' = cs
                /\ IF cs = <<>>
                   THEN pc' = "done" /\ ret' = "0"
                   ELSE pc' = "pull_gate" /\ ret' = ret
    /\ UNCHANGED << cmd, yes, gateVars, ingestVars, poolVars, ncalls, min_batch, dry_run,
                    has_assay, sheet, out_exists, done_cmds >>

\* lines 184-185: config.yes
PullSkip ==
    /\ cmd = "pull" /\ pc = "pull_gate" /\ yes
    /\ pc' = "pull_exec"
    /\ UNCHANGED << cmd, ret, yes, gateVars, ingestVars, poolVars, ncalls, pullVars >>

\* the test that ends the `while True` loop, line 189
LoopEnds(answer_str) ==
    StartsWith(answer_str, <<"y">>) \/ StartsWith(answer_str, <<"n">>)

\* line 191: answer = answer_str == "y"
PullAnswer(answer_str) == answer_str = <<"y">>

\* the status returned after "Answered 'no': NOT pulling files"
PullDeclinedStatus == "0"

\* lines 187-194 (and 205): one input() call, the loop's test and, when the
\* loop ends, the answer
PullPrompt ==
    /\ cmd = "pull" /\ pc = "pull_gate" /\ ~yes
    /\ lines_read < MaxLines
    /\ \E l \in Lines :
        /\ line' = l
        /\ onlyN' = (onlyN /\ l = <<"n">>)
        /\ IF ~LoopEnds(Lower(l))
           THEN pc' = "pull_gate" /\ ret' = ret /\ declined' = declined
           ELSE IF PullAnswer(Lower(l))
           THEN pc' = "pull_exec" /\ ret' = ret /\ declined' = declined
           ELSE /\ pc' = "done"
                /\ ret' = PullDeclinedStatus
                /\ declined' = declined \cup {"pull"}
    /\ lines_read' = lines_read + 1
    /\ UNCHANGED << cmd, yes, ingestVars, poolVars, ncalls, pullVars >>

\* lines 195-201: check_call(cmd) returns
PullCallOk ==
    /\ cmd = "pull" /\ pc = "pull_exec"
    /\ done_cmds < Len(commands)
    /\ ncalls' = ncalls + 1
    /\ done_cmds' = done_cmds + 1
    /\ UNCHANGED << cmd, pc, ret, yes, gateVars, ingestVars, poolVars, min_batch, dry_run,
                    has_assay, sheet, out_exists, out_made, library_to_folder, commands >>

\* a handler that logs the failure and goes on with the next command
ContinueOnFailure == FALSE

\* line 204: the handler's `return 1` leaves the loop over the commands
AbortOnFailure == TRUE

\* lines 202-204: check_call(cmd) raises SubprocessError, return 1
PullCallFail ==
    /\ cmd = "pull" /\ pc = "pull_exec"
    /\ done_cmds < Len(commands)
    /\ ncalls' = ncalls + 1
    /\ failedIn' = failedIn \cup {"pull"}
    /\ IF AbortOnFailure
       THEN pc' = "done" /\ ret' = "1" /\ done_cmds' = done_cmds
       ELSE pc' = pc /\ ret' = ret /\ done_cmds' = done_cmds + 1
    /\ UNCHANGED << cmd, yes, gateVars, ingestVars, phase, submitted, queue, thr, lock,
                    counter, total_bytes, tpos, late, handed, completed, min_batch,
                    dry_run,
                    has_assay,
                    sheet, out_exists, out_made, library_to_folder, commands >>

\* line 205: return 0
PullDone ==
    /\ cmd = "pull" /\ pc = "pull_exec"
    /\ done_cmds = Len(commands)
    /\ pc' = "done"
    /\ ret' = "0"
    /\ UNCHANGED << cmd, yes, gateVars, ingestVars, poolVars, ncalls, pullVars >>

PullNext ==
    \/ PullPlan
    \/ PullSkip
    \/ PullPrompt
    \/ PullCallOk
    \/ PullCallFail
    \/ PullDone

Init == InitCommon /\ (InitIngest \/ InitPull)
Next == IngestNext \/ PullNext
Spec == Init /\ [][Next]_vars

(***************************************************************************)
(* Properties.                                                             *)
(***************************************************************************)
Finished == pc = "done"

\* C1: in ingest-fastq, when the transfer call of a job of the approved list
\* fails, execute ends by re-raising the failure and never by its successful
\* end ("All done", return None), for every pool size.
C1_FailureIsFatal ==
    (cmd = "ingest" /\ "transfer" \in failedIn /\ Finished) => ret = "raise"

\* the phase is over: its pool was joined or its loop ran to the end
PhaseJoined(ph) == phase = ph /\ pc \notin {"submit", "loop"} /\ ph \notin failedIn

\* C2: after a phase whose jobs all succeeded, for each pool size in
\* {0, 1, 8} and each interleaving of the workers, the shared counter equals
\* the sum of the bytes of the phase's jobs.
C2_CounterIsSum ==
    /\ PhaseJoined("staging") => counter = SumBytes(download_jobs)
    /\ PhaseJoined("transfer") => counter = SumBytes(jobs)

C2_Witness ==
    /\ PhaseJoined("staging")
    /\ num_parallel_transfers = DEFAULT_NUM_TRANSFERS
    /\ Len(download_jobs) = 2
    /\ counter = 2

\* C3: with auto_yes unset and every prompt answered "n", no call of the
\* external transfer executor is made, in ingest-fastq and in pull-raw-data.
C3_NoCallsWhenDeclined == (~yes /\ onlyN) => ncalls = 0

C3_Witness ==
    /\ cmd = "ingest" /\ Finished /\ ret = "1"
    /\ ~yes /\ onlyN /\ lines_read = 2
    /\ download_jobs # <<>>
    /\ ncalls = 0

\* the gate of pull-raw-data has let the commands run
PullProceeded == pc = "pull_exec" \/ ncalls > 0

\* C4: with auto_yes unset a gate lets the operation proceed exactly when
\* the lower-cased response starts with "y"; for the two gates of
\* ingest-fastq and for the gate of pull-raw-data.
C4_ProceedsIffStartsWithY ==
    /\ (cmd = "ingest" /\ ~yes /\ pc \in {"stage_go", "xfer_go"}) => Affirmative(line)
    /\ (cmd = "ingest" /\ pc \in {"stage_declined", "xfer_declined"}) => ~Affirmative(line)
    /\ (cmd = "pull" /\ ~yes /\ pc \in {"pull_exec", "done"} /\ lines_read > 0)
            => (PullProceeded <=> Affirmative(line))

\* C5: when the operator declines the final gate of ingest-fastq or the
\* gate of pull-raw-data, the command returns the cancellation status 1.
C5_DeclineReturnsOne ==
    /\ (cmd = "ingest" /\ Finished /\ "transfer" \in declined) => ret = "1"
    /\ (cmd = "pull" /\ Finished /\ "pull" \in declined /\ ~Affirmative(line)) => ret = "1"

\* C6: in ingest-fastq, once the staging gate is declined the operation is
\* over: no staging download runs, the final gate is never presented, no
\* bulk transfer starts and the command ends with the cancellation status.
C6_StagingDeclineAborts ==
    "staging" \in declined =>
        /\ ncalls = 0
        /\ phase = "none"
        /\ pc \notin {"gate2", "xfer_go", "xfer_declined"}
        /\ Finished => ret = "1"

\* C7: after an approved and completed staging, every source contributes a
\* folder to the enumeration: a local source itself, a remote source its
\* staged folder.
C7_StagedFoldersReplaceRemotes ==
    (PhaseJoined("staging") /\ pc = "enumerate") =>
        /\ Len(folders) = Len(sources)
        /\ \A i \in 1..Len(folders) : ~IsWebdav(folders[i])

\* C8: in pull-raw-data with --dry-run, no external transfer call is made,
\* whatever the mapping and the operator's answer.
C8_DryRunCallsNothing == (cmd = "pull" /\ dry_run) => ncalls = 0

\* C9: in the transfer engine of ingest-fastq with a pool size of at least 1,
\* no job is started after the transfer call of a job has failed.
C9_NoStartAfterFailure ==
    (cmd = "ingest" /\ num_parallel_transfers >= 1 /\ phase = "transfer") => late = 0

\* the source folders and the entries of a folder in one fixed order
RECURSIVE InsertPath(_, _)
InsertPath(p, s) ==
    IF s = <<>> THEN <<p>>
    ELSE IF PathLess(p, Head(s)) THEN <<p>> \o s
    ELSE <<Head(s)>> \o InsertPath(p, Tail(s))

RECURSIVE PathsInOrder(_)
PathsInOrder(s) ==
    IF s = <<>> THEN <<>> ELSE InsertPath(Head(s), PathsInOrder(Tail(s)))

EntriesInOrder(S) ==
    CHOOSE o \in GlobOrders(S) :
        \A i, j \in 1..Len(o) : i < j => PathLess(o[i].path, o[j].path)

ReferencePlan(d, pat, fs) ==
    LET sorted == PathsInOrder(fs)
    IN  Sorted(JobsOfFolders(d, pat, sorted,
                             [i \in 1..Len(sorted) |-> EntriesInOrder(Glob(d, sorted[i]))]).jobs)

Ascending(js) == \A i, j \in 1..Len(js) : i < j => ~JobLess(js[j], js[i])

\* C10: the job sequence build_jobs returns is the same whatever order the
\* enumeration yields the files in and whatever the order of the folders,
\* and it ascends in the order of TransferJob (path_src, then path_dest).
C10_PlanningDeterministic ==
    pc = "md5fix" => (jobs = ReferencePlan(disk, pattern, folders) /\ Ascending(jobs))

C10_Witness ==
    /\ pc = "md5fix"
    /\ folders = <<LocalF2, LocalF1>>
    /\ Len(jobs) = 4
    /\ FileTxt \in disk

\* the template names a field that neither the matcher nor {filename, date}
\* supplies
HasUnknownField(pat) ==
    \E f \in dest_pattern_fields(pat) : f \notin MatcherFields \cup {"filename", "date"}

\* the final gate or the bulk transfer has been reached
TransferPhaseBegun ==
    pc \in {"md5fix", "gate2", "xfer_go", "xfer_declined"} \/ phase = "transfer"

\* a data file below one of the folders satisfies the source regex
SomeFileMatches(d, fs) ==
    \E i \in 1..Len(fs) : \E e \in Glob(d, fs[i]) :
        /\ e.isfile
        /\ ~EndsWith(e.path, ".md5")
        /\ Match(e.path).matched

\* C11 as stated: whenever the destination template names an unknown field,
\* planning emits no job and the transfer phase (final gate, bulk transfer)
\* never begins.  Stated for the runs in which no gate was declined.
C11_UnknownFieldStopsPlanning ==
    (cmd = "ingest" /\ HasUnknownField(pattern) /\ declined = {}) =>
        (~TransferPhaseBegun /\ jobs = <<>>)

\* C11 amended: when the destination template names an unknown field and a
\* data file that build_jobs enumerates satisfies the source regex, planning
\* ends with an error, no job is emitted and the transfer phase never begins.
C11_UnknownFieldFailsRendering ==
    (cmd = "ingest" /\ HasUnknownField(pattern) /\ SomeFileMatches(disk, folders)) =>
        /\ Finished /\ ret = "raise"
        /\ jobs = <<>>
        /\ ~TransferPhaseBegun
        /\ "transfer" \notin declined

C11_Witness ==
    /\ Finished /\ ret = "raise"
    /\ pattern = UnknownFieldPattern
    /\ folders = <<LocalF2, LocalF1>>
    /\ FileB \in disk
    /\ jobs = <<>>

\* positions of the jobs of js whose source is (is not) named *.md5
Md5Jobs(js) == {i \in 1..Len(js) : EndsWith(js[i].path_src, ".md5")}
DataJobs(js) == {i \in 1..Len(js) : ~EndsWith(js[i].path_src, ".md5")}

\* job s is the sidecar job of job k
SidecarOf(js, s, k) ==
    /\ js[s].path_src = js[k].path_src \o <<".md5">>
    /\ js[s].path_dest = js[k].path_dest \o <<".md5">>

\* C12: in the job list build_jobs returns, the jobs come in pairs, a data
\* file and its ".md5" sidecar with the data file's destination plus ".md5";
\* a "*.md5" file of the source tree is the source of no job but the sidecar
\* job of its data file, and every job with a "*.md5" source is the sidecar
\* of a data-file job of the list.
C12_SidecarSkip ==
    pc = "md5fix" =>
        /\ \A s \in Md5Jobs(jobs) : \E k \in DataJobs(jobs) : SidecarOf(jobs, s, k)
        /\ \A k \in DataJobs(jobs) : \E s \in Md5Jobs(jobs) : SidecarOf(jobs, s, k)
        /\ Cardinality(Md5Jobs(jobs)) = Cardinality(DataJobs(jobs))
        /\ \A e \in disk : EndsWith(e.path, ".md5") =>
               Cardinality({i \in 1..Len(jobs) : jobs[i].path_src = RealPath(e.path)}) <= 1

C12_Witness ==
    /\ pc = "md5fix"
    /\ folders = <<LocalF1>>
    /\ FileA \in disk /\ FileAMd5 \in disk
    /\ Len(jobs) = 2
    /\ jobs[2].path_src = RealPath(FileAMd5.path)

\* the batch number of a library's source, when it has one
HasBatchNumber(sample) == ~VisitFails(sample) /\ batch_no(sample) # <<>>

\* the library is a key of the mapping
InMapping(l2f, name) == \E i \in 1..Len(l2f) : l2f[i].k = name

\* C13: once pull-raw-data has an assay, it builds the library-to-folder
\* mapping, and a library is in it exactly when its batch number is given
\* and is at least min_batch; a library without batch number or with one
\* below the threshold is left out, batch 0 under threshold 0 is kept.
C13_MinBatchFilter ==
    (cmd = "pull" /\ pc # "start" /\ has_assay) =>
        /\ ret # "raise"
        /\ \A i \in 1..Len(sheet) :
              InMapping(library_to_folder, sheet[i].library_name)
                <=> (HasBatchNumber(sheet[i]) /\ ToInt(batch_no(sheet[i])) >= min_batch)

\* the files the enumeration of the folders yields
EnumeratedFiles(d, fs) ==
    {e \in d : e.isfile /\ \E i \in 1..Len(fs) : e \in Glob(d, fs[i])}

HasJobFrom(js, e) == \E i \in 1..Len(js) : js[i].path_src = RealPath(e.path)

\* build_jobs ended with an exception
PlanningRaised == cmd = "ingest" /\ Finished /\ ret = "raise" /\ failedIn = {}

\* C14: a file of the tree whose path does not satisfy the source regex
\* makes build_jobs raise no error and is the source of no job, data or
\* sidecar; the matching data files of the same tree are still planned.
C14_NonMatchExcluded ==
    /\ pc = "md5fix" =>
          \A e \in EnumeratedFiles(disk, folders) :
              IF Match(e.path).matched
              THEN EndsWith(e.path, ".md5") \/ HasJobFrom(jobs, e)
              ELSE ~HasJobFrom(jobs, e)
    /\ PlanningRaised =>
          \/ \E i \in 1..Len(folders) : ~IsDir(folders[i])
          \/ HasUnknownField(pattern) /\ SomeFileMatches(disk, folders)

C14_Witness ==
    /\ pc = "md5fix"
    /\ folders = <<LocalF1>>
    /\ FileTxt \in disk /\ FileA \in disk /\ FileAMd5 \notin disk
    /\ Len(jobs) = 2
    /\ ~HasJobFrom(jobs, FileTxt)

\* C15: during and after a phase of ingest-fastq the position of the
\* progress display equals the shared byte counter; it never exceeds the
\* total computed before the phase and equals it once every job is done.
C15_ProgressIsCounter ==
    (cmd = "ingest" /\ phase \in {"staging", "transfer"}) =>
        /\ tpos = counter
        /\ tpos <= total_bytes
        /\ (PhaseJoined("staging") \/ PhaseJoined("transfer")) => tpos = total_bytes

\* a sidecar that did not exist when the jobs were planned is on disk now
Md5Generated ==
    \E i \in Md5Jobs(jobs) : jobs[i].bytes = 0 /\ OnDisk(disk, jobs[i].path_src) # {}

\* C16: in a run that ends because the operator declined a gate (every
\* prompt answered "n"), nothing irreversible has happened: no temporary or
\* output directory was created, no ".md5" sidecar was written and the
\* transfer executor was not called.
C16_NoPartialWorkOnDecline ==
    (Finished /\ ~yes /\ onlyN /\ declined # {}) =>
        /\ mkdirs = {}
        /\ ~out_made
        /\ ~Md5Generated
        /\ ncalls = 0

\* C17: with auto_yes unset every gate reads one line and decides on it,
\* whatever the line: a gate that waits for input has read nothing yet, so
\* pull-raw-data reads at most one line and ingest-fastq at most one per gate.
C17_OneLinePerGate ==
    /\ pc \in {"gate1", "pull_gate"} => lines_read = 0
    /\ pc = "gate2" => lines_read <= 1
    /\ cmd = "pull" => lines_read <= 1
    /\ cmd = "ingest" => lines_read <= 2

\* C18: pull-raw-data runs the approved commands one at a time in list
\* order (commands 1..done_cmds have completed, the next call is for command
\* done_cmds + 1); when the call of a command fails, the commands after it
\* are never started, the completed ones stay completed and the command
\* returns 1.
C18_PullStopsAtFailure ==
    cmd = "pull" =>
        /\ ncalls <= Len(commands)
        /\ "pull" \notin failedIn => ncalls = done_cmds
        /\ "pull" \in failedIn =>
              /\ Finished /\ ret = "1"
              /\ ncalls = done_cmds + 1

C18_Witness ==
    /\ cmd = "pull" /\ "pull" \in failedIn
    /\ Len(commands) = 2
    /\ done_cmds = 0 /\ ncalls = 1
    /\ Finished /\ ret = "1"

\* C19: when execute of ingest-fastq has returned, no thread is running a
\* transfer and no dispatched job is still queued; it returns normally
\* ("All done") only after every job of the list was dispatched and has
\* finished, successfully or not.
C19_ReturnsAfterJoin ==
    (cmd = "ingest" /\ Finished) =>
        /\ queue = <<>>
        /\ \A t \in Threads : thr[t].pc = "idle"
        /\ lock = -1
        /\ ret = "None" => (phase = "transfer" /\ submitted = Len(jobs))

C19_Witness ==
    /\ cmd = "ingest" /\ Finished /\ ret = "None"
    /\ num_parallel_transfers = DEFAULT_NUM_TRANSFERS
    /\ Len(jobs) = 4 /\ submitted = 4 /\ ncalls >= 4
    /\ "transfer" \in failedIn
    /\ counter > 0

\* C20: in each phase of ingest-fastq every job of the approved list is
\* handed to the external transfer executor at most once, and exactly once
\* when the phase has ended with every transfer successful, for the pool
\* sizes 0, 1 and 8 and every interleaving.
C20_HandedAtMostOnce ==
    (cmd = "ingest" /\ phase \in {"staging", "transfer"}) =>
        /\ Len(handed) = Len(ActiveJobs)
        /\ \A i \in 1..Len(handed) : handed[i] <= 1
        /\ (PhaseJoined("staging") \/ PhaseJoined("transfer")) =>
              \A i \in 1..Len(handed) : handed[i] = 1

C20_Witness ==
    /\ cmd = "ingest" /\ Finished /\ ret = "None"
    /\ num_parallel_transfers = 1
    /\ "transfer" \notin failedIn
    /\ Len(jobs) = 4
    /\ \A i \in 1..4 : handed[i] = 1

\* the bytes of the jobs of js at the positions S
RECURSIVE BytesOf(_, _)
BytesOf(js, S) ==
    IF S = {} THEN 0
    ELSE LET i == CHOOSE k \in S : TRUE IN js[i].bytes + BytesOf(js, S \ {i})

\* C21: in each phase the shared byte counter equals the sum of the bytes
\* of the jobs whose worker call has returned successfully so far; a failed
\* job adds nothing, the counter never exceeds the total computed before
\* the phase, and it never decreases while the phase lasts.
C21_CounterIsCompletedSum ==
    /\ [](phase \in {"staging", "transfer"} =>
            /\ counter = BytesOf(ActiveJobs, completed)
            /\ counter <= total_bytes)
    /\ [][phase' = phase => counter' >= counter]_vars

C21_Witness ==
    /\ phase = "transfer" /\ Finished /\ ret = "None"
    /\ num_parallel_transfers = DEFAULT_NUM_TRANSFERS
    /\ "transfer" \in failedIn
    /\ Len(jobs) = 4
    /\ Cardinality(completed) = 2
    /\ counter = BytesOf(jobs, completed) /\ counter > 0

\* the irsync command of one entry of the mapping
CommandFor(entry) ==
    [src |-> <<"i:", "assay/">> \o entry.k, dest |-> <<"out/">> \o entry.v]

\* pull-raw-data has left through "No samples to transfer", return 0
NoSamplesReturn ==
    cmd = "pull" /\ has_assay /\ Finished /\ ret = "0" /\ commands = <<>>

\* C22: once pull-raw-data has built the mapping, its commands are the
\* entries of the filtered library-to-folder mapping, one irsync command
\* per entry (assay path / library name to output dir / folder name), and
\* it leaves through "no samples to transfer" with status 0 only when the
\* filtered mapping is empty.
C22_CommandsMatchMapping ==
    (cmd = "pull" /\ pc # "start" /\ has_assay /\ ret # "raise") =>
        /\ Len(commands) = Len(library_to_folder)
        /\ \A i \in 1..Len(commands) :
              i <= Len(library_to_folder) => commands[i] = CommandFor(library_to_folder[i])
        /\ NoSamplesReturn => library_to_folder = <<>>

\* staging is needed: a source is a WebDAV locator
StagingNeeded == \E i \in 1..Len(sources) : IsWebdav(sources[i])

\* the final gate has been answered
FinalGateAnswered == pc \in {"xfer_go", "xfer_declined"} \/ phase = "transfer"
                        \/ "transfer" \in declined

\* C23: ingest-fastq with auto_yes unset prompts once, at the final gate,
\* when all sources are local, and twice, staging gate then final gate,
\* when a source is remote: the staging gate is not presented without
\* staging to approve.
C23_PromptsAsNeeded ==
    (cmd = "ingest" /\ ~yes) =>
        /\ ~StagingNeeded =>
              /\ "staging" \notin declined
              /\ pc = "stage_go" => lines_read = 0
              /\ lines_read <= 1
              /\ FinalGateAnswered => lines_read = 1
        /\ StagingNeeded =>
              /\ pc \in {"stage_go", "stage_declined"} => lines_read = 1
              /\ lines_read <= 2
              /\ FinalGateAnswered => lines_read = 2

====
